---- MODULE Spec2Model ----
(***************************************************************************)
(* go-genai-sdk: thin adapters over the google.golang.org/genai provider   *)
(* library.  The adapters are the chat client, the chat session and the    *)
(* embedding client.  A handler is modelled up to each blocking provider   *)
(* call: the "call" action runs the code before the provider call and      *)
(* records the request; the "return" action draws the provider's outcome   *)
(* and runs the code after it.  inv is the invocation in progress (or the  *)
(* last one finished) of the single caller.                                *)
(***************************************************************************)
EXTENDS Integers, Sequences, FiniteSets, TLC

VARIABLES env, chat, session, history, emb, embModelArg, live, prev, callers, inv

vars == <<env, chat, session, history, emb, embModelArg, live, prev, callers, inv>>

(***************************************************************************)
(* Bounds of the model.                                                    *)
(***************************************************************************)
MaxCandidates == 2
MaxParts == 2
MaxEmbeddings == 2
MaxDim == 2
MaxBatch == 2
MaxHistory == 2

(***************************************************************************)
(* Program constants.                                                      *)
(***************************************************************************)
EmbeddingDimension == 768
EmbeddingModel == "gemini-embedding-exp-03-07"
DefaultChatModel == "gemini-1.5-flash"

(***************************************************************************)
(* Input domains.                                                          *)
(***************************************************************************)
ApiKeys == {"", "k1"}
EnvValues == {"", "envkey"}
ModelNames == {"", "m1"}
Prompts == {"", "a", "b"}
ArgKeys == {"", "k2"}
PartTexts == {"x", "y"}
NilConfig == [isNil |-> TRUE, title |-> ""]
Configs == {NilConfig, [isNil |-> FALSE, title |-> "t"]}
Logger == "logger"

SeqsUpTo(S, n) == UNION {[1..k -> S] : k \in 0..n}

(***************************************************************************)
(* Go values: nil pointers and error values.  An error value records where *)
(* it was created (origin) and its %w chain of messages, outermost first.  *)
(*   validation: created by this layer from the arguments alone            *)
(*   response:   created by this layer on inspecting a provider response   *)
(*   provider:   returned by the provider library                          *)
(***************************************************************************)
Nil == [isNil |-> TRUE]
NoIndex == -1
Frame(msg, index) == [msg |-> msg, index |-> index]
NoErr == [origin |-> "none", chain |-> <<>>]
Errorf(origin, msg) == [origin |-> origin, chain |-> <<Frame(msg, NoIndex)>>]
Wrapf(msg, index, err) == [origin |-> err.origin, chain |-> <<Frame(msg, index)>> \o err.chain]
ProviderErrs == {[origin |-> "provider", chain |-> <<Frame(m, NoIndex)>>] :
                    m \in {"api error", "context deadline exceeded"}}

NilVec == [isNil |-> TRUE, Values |-> <<>>]
Vec(v) == [isNil |-> FALSE, Values |-> v]

(***************************************************************************)
(* The provider library (google.golang.org/genai), as the adapters use it. *)
(* A request records the provider method and its arguments.  An outcome is *)
(* what the provider call returns: an error, or a response.                *)
(***************************************************************************)
NoOutcome == [err |-> NoErr, resp |-> Nil]

\* genai.NewClient: rejects an empty API key, accepts any other key.
genaiNewClient(apiKey) ==
    IF apiKey = ""
    THEN [client |-> Nil, err |-> Errorf("provider", "api key is required")]
    ELSE [client |-> [isNil |-> FALSE, apiKey |-> apiKey], err |-> NoErr]

\* Models.EmbedContent responses: nil, or a list of embeddings, each nil or
\* holding a list of values.
Values == {1}
Vectors == SeqsUpTo(Values, MaxDim)
ContentEmbeddings == {NilVec} \cup {Vec(v) : v \in Vectors}
NilEmbedResponse == [isNil |-> TRUE, Embeddings |-> <<>>]
EmbedResponses ==
    {NilEmbedResponse} \cup
    {[isNil |-> FALSE, Embeddings |-> es] : es \in SeqsUpTo(ContentEmbeddings, MaxEmbeddings)}
EmbedOutcomes ==
    {[err |-> e, resp |-> NilEmbedResponse] : e \in ProviderErrs} \cup
    {[err |-> NoErr, resp |-> r] : r \in EmbedResponses}

\* Several callers may use one client at a time; callers[c] is the
\* invocation caller c has in progress or finished last.
Callers == {1, 2}

(***************************************************************************)
(* Invocation records.                                                     *)
(***************************************************************************)
NoLoc == [i |-> 0, embeddings |-> <<>>]
Idle == [op |-> "none", args |-> Nil, pc |-> "done", calls |-> <<>>,
         resp |-> NoOutcome, err |-> NoErr, out |-> Nil, loc |-> NoLoc]

NoCallers == [c \in Callers |-> Idle]

\* The handler returns (err, out) without a further provider call.
Done(op, args, calls, resp, err, out, loc) ==
    [op |-> op, args |-> args, pc |-> "done", calls |-> calls,
     resp |-> resp, err |-> err, out |-> out, loc |-> loc]

\* The handler blocks in the provider call it appended to calls; resp is the
\* outcome of its previous provider call, if it made one.
Await(op, args, calls, resp, loc) ==
    [op |-> op, args |-> args, pc |-> "await", calls |-> calls,
     resp |-> resp, err |-> NoErr, out |-> Nil, loc |-> loc]

(***************************************************************************)
(* Embedding client.                                                       *)
(***************************************************************************)
\* NewGeminiEmbeddingClient: the client built from the arguments.
NewGeminiEmbeddingClientResult(apiKey, modelName, logger) ==
    IF apiKey = ""
    THEN [client |-> Nil, err |-> Errorf("validation", "API key is required")]
    ELSE LET c == genaiNewClient(apiKey) IN
         IF c.err # NoErr
         THEN [client |-> Nil, err |-> Wrapf("failed to create Gemini client", NoIndex, c.err)]
         ELSE [client |-> [isNil |-> FALSE, client |-> c.client, logger |-> logger],
               err |-> NoErr]

NewGeminiEmbeddingClient ==
    /\ inv.pc = "done"
    /\ \E apiKey \in ApiKeys, modelName \in ModelNames :
         LET r == NewGeminiEmbeddingClientResult(apiKey, modelName, Logger) IN
         /\ inv' = Done("NewGeminiEmbeddingClient",
                        [apiKey |-> apiKey, modelName |-> modelName, logger |-> Logger],
                        <<>>, NoOutcome, r.err, r.client, NoLoc)
         /\ IF r.err = NoErr
            THEN emb' = r.client /\ embModelArg' = modelName
            ELSE UNCHANGED <<emb, embModelArg>>
    /\ UNCHANGED <<env, chat, session, history, live, prev, callers>>

\* Mutant: the text is not checked.
GenerateEmbeddingValidateNone(text) == NoErr

\* GenerateEmbedding, before the provider call: the check of the text.
GenerateEmbeddingValidate(text) ==
    IF text = "" THEN Errorf("validation", "text cannot be empty") ELSE NoErr

\* GenerateEmbedding: the provider request it issues.
EmbedContentRequest(es, text, config) ==
    [api |-> "Models.EmbedContent", client |-> es.client, model |-> EmbeddingModel,
     text |-> text, config |-> config]

\* Mutant: a first embedding without values is returned as a success.
GenerateEmbeddingResultNoValuesCheck(o) ==
    IF o.err # NoErr
    THEN [vec |-> NilVec, err |-> Wrapf("failed to generate embedding", NoIndex, o.err)]
    ELSE IF o.resp.isNil \/ Len(o.resp.Embeddings) = 0
    THEN [vec |-> NilVec, err |-> Errorf("response", "received empty embedding from API")]
    ELSE LET contentEmbedding == o.resp.Embeddings[1] IN
         IF contentEmbedding.isNil
         THEN [vec |-> NilVec,
               err |-> Errorf("response", "received empty embedding values from API")]
         ELSE [vec |-> Vec(contentEmbedding.Values), err |-> NoErr]

\* Mutant: a failed provider call is reported by a new error that does not
\* carry the provider's.
GenerateEmbeddingResultNewError(o) ==
    IF o.err # NoErr
    THEN [vec |-> NilVec, err |-> Errorf("provider", "failed to generate embedding")]
    ELSE IF o.resp.isNil \/ Len(o.resp.Embeddings) = 0
    THEN [vec |-> NilVec, err |-> Errorf("response", "received empty embedding from API")]
    ELSE LET contentEmbedding == o.resp.Embeddings[1] IN
         IF contentEmbedding.isNil \/ Len(contentEmbedding.Values) = 0
         THEN [vec |-> NilVec,
               err |-> Errorf("response", "received empty embedding values from API")]
         ELSE [vec |-> Vec(contentEmbedding.Values), err |-> NoErr]

\* GenerateEmbedding, after the provider call: (vector, error) from the outcome.
GenerateEmbeddingResult(o) ==
    IF o.err # NoErr
    THEN [vec |-> NilVec, err |-> Wrapf("failed to generate embedding", NoIndex, o.err)]
    ELSE IF o.resp.isNil \/ Len(o.resp.Embeddings) = 0
    THEN [vec |-> NilVec, err |-> Errorf("response", "received empty embedding from API")]
    ELSE LET contentEmbedding == o.resp.Embeddings[1] IN
         IF contentEmbedding.isNil \/ Len(contentEmbedding.Values) = 0
         THEN [vec |-> NilVec,
               err |-> Errorf("response", "received empty embedding values from API")]
         ELSE [vec |-> Vec(contentEmbedding.Values), err |-> NoErr]

GenerateEmbedding ==
    /\ inv.pc = "done"
    /\ ~emb.isNil
    /\ \E text \in Prompts, config \in Configs :
         LET args == [text |-> text, config |-> config]
             v == GenerateEmbeddingValidate(text) IN
         inv' = IF v # NoErr
                THEN Done("GenerateEmbedding", args, <<>>, NoOutcome, v, NilVec, NoLoc)
                ELSE Await("GenerateEmbedding", args,
                           <<EmbedContentRequest(emb, text, config)>>, NoOutcome, NoLoc)
    /\ UNCHANGED <<env, chat, session, history, emb, embModelArg, live, prev, callers>>

GenerateEmbeddingReturn ==
    /\ inv.pc = "await"
    /\ inv.op = "GenerateEmbedding"
    /\ \E o \in EmbedOutcomes :
         LET r == GenerateEmbeddingResult(o) IN
         inv' = Done(inv.op, inv.args, inv.calls, o, r.err, r.vec, NoLoc)
    /\ UNCHANGED <<env, chat, session, history, emb, embModelArg, live, prev, callers>>

\* GenerateQueryEmbedding: GenerateEmbedding(query, nil), its error wrapped.
GenerateQueryEmbeddingWrap(err) ==
    IF err # NoErr THEN Wrapf("failed to generate query embedding", NoIndex, err) ELSE NoErr

GenerateQueryEmbedding ==
    /\ inv.pc = "done"
    /\ ~emb.isNil
    /\ \E query \in Prompts :
         LET args == [query |-> query]
             v == GenerateEmbeddingValidate(query) IN
         inv' = IF v # NoErr
                THEN Done("GenerateQueryEmbedding", args, <<>>, NoOutcome,
                          GenerateQueryEmbeddingWrap(v), NilVec, NoLoc)
                ELSE Await("GenerateQueryEmbedding", args,
                           <<EmbedContentRequest(emb, query, NilConfig)>>, NoOutcome, NoLoc)
    /\ UNCHANGED <<env, chat, session, history, emb, embModelArg, live, prev, callers>>

GenerateQueryEmbeddingReturn ==
    /\ inv.pc = "await"
    /\ inv.op = "GenerateQueryEmbedding"
    /\ \E o \in EmbedOutcomes :
         LET r == GenerateEmbeddingResult(o) IN
         inv' = Done(inv.op, inv.args, inv.calls, o,
                     GenerateQueryEmbeddingWrap(r.err), r.vec, NoLoc)
    /\ UNCHANGED <<env, chat, session, history, emb, embModelArg, live, prev, callers>>

(***************************************************************************)
(* BatchGenerateEmbeddings.  loc.embeddings is the slice the loop fills     *)
(* (make([][]float32, len(texts))), loc.i the loop position (from 1); the   *)
(* index the error message names counts from 0.  out is the returned slice. *)
(***************************************************************************)
NilVecs == [isNil |-> TRUE, vecs |-> <<>>]
Vecs(vs) == [isNil |-> FALSE, vecs |-> vs]
TextLists == SeqsUpTo(Prompts, MaxBatch)

\* Mutant: the error names the position counted from 1.
BatchItemErrorOneBased(i, err) ==
    Wrapf("failed to generate embedding for text at index", i, err)

\* The error the loop returns for the item at position i.
BatchItemError(i, err) ==
    Wrapf("failed to generate embedding for text at index", i - 1, err)

\* Mutant: the vectors generated so far are returned with the error.
BatchErrorResultPartial(embeddings) == Vecs(embeddings)

\* The slice returned when the loop stops on an error.
BatchErrorResult(embeddings) == NilVecs

\* Mutant: the loop stays on the item it just finished.
BatchNextIndexSame(i) == i

\* The loop position after the item at position i succeeded.
BatchNextIndex(i) == i + 1

\* The loop from position i up to its next provider call, or to its return.
BatchLoop(es, args, calls, resp, embeddings, i) ==
    IF i > Len(args.texts)
    THEN Done("BatchGenerateEmbeddings", args, calls, resp, NoErr, Vecs(embeddings),
              [i |-> i, embeddings |-> embeddings])
    ELSE LET v == GenerateEmbeddingValidate(args.texts[i]) IN
         IF v # NoErr
         THEN Done("BatchGenerateEmbeddings", args, calls, resp, BatchItemError(i, v),
                   BatchErrorResult(embeddings), [i |-> i, embeddings |-> embeddings])
         ELSE Await("BatchGenerateEmbeddings", args,
                    Append(calls, EmbedContentRequest(es, args.texts[i], NilConfig)), resp,
                    [i |-> i, embeddings |-> embeddings])

\* Mutant: an empty list is not rejected.
BatchValidateNone(texts) == NoErr

\* BatchGenerateEmbeddings, before the loop: the check of the list.
BatchValidate(texts) ==
    IF Len(texts) = 0
    THEN Errorf("validation", "no texts provided for batch embedding")
    ELSE NoErr

BatchGenerateEmbeddings ==
    /\ inv.pc = "done"
    /\ ~emb.isNil
    /\ \E texts \in TextLists :
         LET args == [texts |-> texts]
             v == BatchValidate(texts) IN
         inv' = IF v # NoErr
                THEN Done("BatchGenerateEmbeddings", args, <<>>, NoOutcome, v, NilVecs, NoLoc)
                ELSE BatchLoop(emb, args, <<>>, NoOutcome,
                               [k \in 1..Len(texts) |-> NilVec], 1)
    /\ UNCHANGED <<env, chat, session, history, emb, embModelArg, live, prev, callers>>

BatchGenerateEmbeddingsReturn ==
    /\ inv.pc = "await"
    /\ inv.op = "BatchGenerateEmbeddings"
    /\ \E o \in EmbedOutcomes :
         LET r == GenerateEmbeddingResult(o)
             i == inv.loc.i
             embeddings == [inv.loc.embeddings EXCEPT ![i] = r.vec] IN
         inv' = IF r.err # NoErr
                THEN Done(inv.op, inv.args, inv.calls, o, BatchItemError(i, r.err),
                          BatchErrorResult(embeddings), [i |-> i, embeddings |-> embeddings])
                ELSE BatchLoop(emb, inv.args, inv.calls, o, embeddings, BatchNextIndex(i))
    /\ UNCHANGED <<env, chat, session, history, emb, embModelArg, live, prev, callers>>

(***************************************************************************)
(* Convenience formatters: each renders its fields as one text and calls   *)
(* GenerateEmbedding(ctx, text, nil), wrapping its error.                  *)
(***************************************************************************)
Names == {"", " ", "Louvre", " Louvre "}
Descriptions == {"", "museum"}
Categories == {"art"}
Countries == {"France"}
InterestLists == {<<>>, <<"art">>, <<"art", "food">>}
NoPreferences == [k \in {} |-> ""]
PreferenceMaps ==
    {NoPreferences,
     [k \in {"budget"} |-> "medium"],
     [k \in {"budget", "style"} |-> IF k = "budget" THEN "medium" ELSE "cultural"]}

\* Mutant: nothing is trimmed.
TrimSpaceNothing(s) == s

\* strings.TrimSpace, on Names.
TrimSpace(s) == IF s = " " THEN "" ELSE IF s = " Louvre " THEN "Louvre" ELSE s

\* Mutant: the POI text carries the name of the operation that ran before.
POITextStateful(name, description, category) ==
    "Name: " \o name \o "\nCategory: " \o category \o "\nAfter: " \o inv.op

\* fmt.Sprintf("Name: %s\nCategory: %s\nDescription: %s", ...), or without
\* the description line when the description is empty.
POIText(name, description, category) ==
    IF description # ""
    THEN "Name: " \o name \o "\nCategory: " \o category \o "\nDescription: " \o description
    ELSE "Name: " \o name \o "\nCategory: " \o category

\* Mutant: the city name is sent trimmed.
CityTextTrimmed(name, country, description) ==
    LET text == "City: " \o TrimSpace(name) \o ", Country: " \o country IN
    IF description # "" THEN text \o "\nDescription: " \o description ELSE text

\* fmt.Sprintf("City: %s, Country: %s", ...) plus the description line when
\* the description is not empty.
CityText(name, country, description) ==
    LET text == "City: " \o name \o ", Country: " \o country IN
    IF description # "" THEN text \o "\nDescription: " \o description ELSE text

\* The orders in which a range statement may visit the keys of a map: the
\* language leaves the order open, and it may differ from one loop to the
\* next.
RangeOrders(m) ==
    {order \in [1..Cardinality(DOMAIN m) -> DOMAIN m] :
        \A i, j \in 1..Cardinality(DOMAIN m) : order[i] = order[j] => i = j}

RECURSIVE JoinInterests(_)
JoinInterests(interests) ==
    IF Len(interests) = 0 THEN ""
    ELSE IF Len(interests) = 1 THEN interests[1]
    ELSE JoinInterests(SubSeq(interests, 1, Len(interests) - 1)) \o ", "
             \o interests[Len(interests)]

RECURSIVE RenderPreferences(_, _)
RenderPreferences(preferences, order) ==
    IF Len(order) = 0 THEN ""
    ELSE RenderPreferences(preferences, SubSeq(order, 1, Len(order) - 1))
             \o order[Len(order)] \o ": " \o preferences[order[Len(order)]] \o "; "

\* Mutant: without interests and preferences the text is empty.
UserPreferenceTextBare(interests, preferences, order) ==
    IF Len(interests) = 0 /\ Cardinality(DOMAIN preferences) = 0
    THEN ""
    ELSE LET text == "User Interests: " \o JoinInterests(interests) IN
         IF Cardinality(DOMAIN preferences) > 0
         THEN text \o "\nPreferences: " \o RenderPreferences(preferences, order)
         ELSE text

\* The text of GenerateUserPreferenceEmbedding when the range over the map
\* visits the keys in the given order.
UserPreferenceText(interests, preferences, order) ==
    LET text == "User Interests: " \o JoinInterests(interests) IN
    IF Cardinality(DOMAIN preferences) > 0
    THEN text \o "\nPreferences: " \o RenderPreferences(preferences, order)
    ELSE text

\* prev remembers, for a formatter call, the formatter call that ran right
\* before it: its operation, its arguments and the texts it sent.
FormatterOps ==
    {"GeneratePOIEmbedding", "GenerateCityEmbedding", "GenerateUserPreferenceEmbedding"}
RequestTexts(i) == [k \in 1..Len(i.calls) |-> i.calls[k].text]
NoPrevious == [op |-> "none", args |-> Nil, texts |-> <<>>]
Previous(i) ==
    IF i.op \in FormatterOps
    THEN [op |-> i.op, args |-> i.args, texts |-> RequestTexts(i)]
    ELSE NoPrevious

GeneratePOIEmbeddingValidate(name) ==
    IF TrimSpace(name) = "" THEN Errorf("validation", "poi name cannot be empty") ELSE NoErr

GenerateCityEmbeddingValidate(name) ==
    IF TrimSpace(name) = "" THEN Errorf("validation", "city name cannot be empty") ELSE NoErr

GeneratePOIEmbeddingWrap(err) ==
    IF err # NoErr THEN Wrapf("failed to generate POI embedding", NoIndex, err) ELSE NoErr

GenerateCityEmbeddingWrap(err) ==
    IF err # NoErr THEN Wrapf("failed to generate city embedding", NoIndex, err) ELSE NoErr

GenerateUserPreferenceEmbeddingWrap(err) ==
    IF err # NoErr
    THEN Wrapf("failed to generate user preference embedding", NoIndex, err)
    ELSE NoErr

GeneratePOIEmbedding ==
    /\ inv.pc = "done"
    /\ ~emb.isNil
    /\ \E name \in Names, description \in Descriptions, category \in Categories :
         LET args == [name |-> name, description |-> description, category |-> category]
             nameErr == GeneratePOIEmbeddingValidate(name)
             text == POIText(name, description, category)
             v == GenerateEmbeddingValidate(text) IN
         inv' = IF nameErr # NoErr
                THEN Done("GeneratePOIEmbedding", args, <<>>, NoOutcome, nameErr, NilVec, NoLoc)
                ELSE IF v # NoErr
                THEN Done("GeneratePOIEmbedding", args, <<>>, NoOutcome,
                          GeneratePOIEmbeddingWrap(v), NilVec, NoLoc)
                ELSE Await("GeneratePOIEmbedding", args,
                           <<EmbedContentRequest(emb, text, NilConfig)>>, NoOutcome, NoLoc)
    /\ prev' = Previous(inv)
    /\ UNCHANGED <<env, chat, session, history, emb, embModelArg, live, callers>>

GeneratePOIEmbeddingReturn ==
    /\ inv.pc = "await"
    /\ inv.op = "GeneratePOIEmbedding"
    /\ \E o \in EmbedOutcomes :
         LET r == GenerateEmbeddingResult(o) IN
         inv' = Done(inv.op, inv.args, inv.calls, o,
                     GeneratePOIEmbeddingWrap(r.err), r.vec, NoLoc)
    /\ UNCHANGED <<env, chat, session, history, emb, embModelArg, live, prev, callers>>

GenerateCityEmbedding ==
    /\ inv.pc = "done"
    /\ ~emb.isNil
    /\ \E name \in Names, country \in Countries, description \in Descriptions :
         LET args == [name |-> name, country |-> country, description |-> description]
             nameErr == GenerateCityEmbeddingValidate(name)
             text == CityText(name, country, description)
             v == GenerateEmbeddingValidate(text) IN
         inv' = IF nameErr # NoErr
                THEN Done("GenerateCityEmbedding", args, <<>>, NoOutcome, nameErr, NilVec, NoLoc)
                ELSE IF v # NoErr
                THEN Done("GenerateCityEmbedding", args, <<>>, NoOutcome,
                          GenerateCityEmbeddingWrap(v), NilVec, NoLoc)
                ELSE Await("GenerateCityEmbedding", args,
                           <<EmbedContentRequest(emb, text, NilConfig)>>, NoOutcome, NoLoc)
    /\ prev' = Previous(inv)
    /\ UNCHANGED <<env, chat, session, history, emb, embModelArg, live, callers>>

GenerateCityEmbeddingReturn ==
    /\ inv.pc = "await"
    /\ inv.op = "GenerateCityEmbedding"
    /\ \E o \in EmbedOutcomes :
         LET r == GenerateEmbeddingResult(o) IN
         inv' = Done(inv.op, inv.args, inv.calls, o,
                     GenerateCityEmbeddingWrap(r.err), r.vec, NoLoc)
    /\ UNCHANGED <<env, chat, session, history, emb, embModelArg, live, prev, callers>>

GenerateUserPreferenceEmbedding ==
    /\ inv.pc = "done"
    /\ ~emb.isNil
    /\ \E interests \in InterestLists, preferences \in PreferenceMaps :
         \E order \in RangeOrders(preferences) :
           LET args == [interests |-> interests, preferences |-> preferences]
               text == UserPreferenceText(interests, preferences, order)
               v == GenerateEmbeddingValidate(text) IN
           inv' = IF v # NoErr
                  THEN Done("GenerateUserPreferenceEmbedding", args, <<>>, NoOutcome,
                            GenerateUserPreferenceEmbeddingWrap(v), NilVec, NoLoc)
                  ELSE Await("GenerateUserPreferenceEmbedding", args,
                             <<EmbedContentRequest(emb, text, NilConfig)>>, NoOutcome, NoLoc)
    /\ prev' = Previous(inv)
    /\ UNCHANGED <<env, chat, session, history, emb, embModelArg, live, callers>>

GenerateUserPreferenceEmbeddingReturn ==
    /\ inv.pc = "await"
    /\ inv.op = "GenerateUserPreferenceEmbedding"
    /\ \E o \in EmbedOutcomes :
         LET r == GenerateEmbeddingResult(o) IN
         inv' = Done(inv.op, inv.args, inv.calls, o,
                     GenerateUserPreferenceEmbeddingWrap(r.err), r.vec, NoLoc)
    /\ UNCHANGED <<env, chat, session, history, emb, embModelArg, live, prev, callers>>

\* Mutant: Close drops the provider handle.
ClientAfterCloseCleared(es) == [es EXCEPT !.client = Nil]

\* Close is a no-op: the client after it is the client before it.
ClientAfterClose(es) == es

Close ==
    /\ inv.pc = "done"
    /\ ~emb.isNil
    /\ inv' = Done("Close", Nil, <<>>, NoOutcome, NoErr, Nil, NoLoc)
    /\ emb' = ClientAfterClose(emb)
    /\ UNCHANGED <<env, chat, session, history, embModelArg, live, prev, callers>>

(***************************************************************************)
(* Chat client.                                                            *)
(***************************************************************************)
\* Models.GenerateContent and Chat.SendMessage responses: a list of
\* candidates, each with the list of the texts of its content's parts.
Candidates == {[Parts |-> ps] : ps \in SeqsUpTo(PartTexts, MaxParts)}
NilGenResponse == [isNil |-> TRUE, Candidates |-> <<>>]
GenResponses ==
    {[isNil |-> FALSE, Candidates |-> cs] : cs \in SeqsUpTo(Candidates, MaxCandidates)}
GenOutcomes ==
    {[err |-> e, resp |-> NilGenResponse] : e \in ProviderErrs} \cup
    {[err |-> NoErr, resp |-> r] : r \in GenResponses}

\* os.Getenv("GEMINI_API_KEY")
Getenv == env

\* Mutant: an empty model name is kept.
NewGeminiChatClientResultNoDefault(apiKey, modelName) ==
    LET key == IF apiKey = "" THEN Getenv ELSE apiKey
        c == genaiNewClient(key) IN
    IF c.err # NoErr
    THEN [client |-> Nil, err |-> c.err]
    ELSE [client |-> [isNil |-> FALSE, client |-> c.client, model |-> modelName],
          err |-> NoErr]

\* NewGeminiChatClient: the client built from the arguments.
NewGeminiChatClientResult(apiKey, modelName) ==
    LET key == IF apiKey = "" THEN Getenv ELSE apiKey
        model == IF modelName = "" THEN DefaultChatModel ELSE modelName
        c == genaiNewClient(key) IN
    IF c.err # NoErr
    THEN [client |-> Nil, err |-> c.err]
    ELSE [client |-> [isNil |-> FALSE, client |-> c.client, model |-> model], err |-> NoErr]

\* Model()
Model(g) == g.model

NewGeminiChatClient ==
    /\ inv.pc = "done"
    /\ \E apiKey \in ApiKeys, modelName \in ModelNames :
         LET r == NewGeminiChatClientResult(apiKey, modelName) IN
         /\ inv' = Done("NewGeminiChatClient", [apiKey |-> apiKey, modelName |-> modelName],
                        <<>>, NoOutcome, r.err, r.client, NoLoc)
         /\ chat' = IF r.err = NoErr THEN r.client ELSE chat
    /\ UNCHANGED <<env, session, history, emb, embModelArg, live, prev, callers>>

\* Mutant: the prompt is checked before the provider call.
GenerateContentValidateChecked(prompt) ==
    IF prompt = "" THEN Errorf("validation", "prompt cannot be empty") ELSE NoErr

\* GenerateResponse and GenerateContent, before the provider call: the
\* prompt goes to the provider unchecked.
GenerateContentValidate(prompt) == NoErr

\* Mutant: the request is made with a caller's key, not the client's.
GenerateContentRequestOtherKey(g, prompt, config) ==
    [api |-> "Models.GenerateContent", client |-> [isNil |-> FALSE, apiKey |-> "k2"],
     model |-> g.model, text |-> prompt, config |-> config]

\* The provider request of GenerateResponse and GenerateContent.
GenerateContentRequest(g, prompt, config) ==
    [api |-> "Models.GenerateContent", client |-> g.client, model |-> g.model,
     text |-> prompt, config |-> config]

\* GenerateResponse, after the provider call.
GenerateResponseResult(o) ==
    IF o.err # NoErr THEN [resp |-> NilGenResponse, err |-> o.err]
    ELSE [resp |-> o.resp, err |-> NoErr]

\* Mutant: the last part of the last candidate is returned.
GenerateContentResultLast(o) ==
    IF o.err # NoErr THEN [text |-> "", err |-> o.err]
    ELSE IF Len(o.resp.Candidates) > 0 /\ Len(o.resp.Candidates[1].Parts) > 0
    THEN LET c == o.resp.Candidates[Len(o.resp.Candidates)] IN
         [text |-> IF Len(c.Parts) > 0 THEN c.Parts[Len(c.Parts)] ELSE "", err |-> NoErr]
    ELSE [text |-> "", err |-> Errorf("response", "no content generated")]

\* GenerateContent, after the provider call.
GenerateContentResult(o) ==
    IF o.err # NoErr THEN [text |-> "", err |-> o.err]
    ELSE IF Len(o.resp.Candidates) > 0 /\ Len(o.resp.Candidates[1].Parts) > 0
    THEN [text |-> o.resp.Candidates[1].Parts[1], err |-> NoErr]
    ELSE [text |-> "", err |-> Errorf("response", "no content generated")]

GenerateResponse ==
    /\ inv.pc = "done"
    /\ ~chat.isNil
    /\ \E prompt \in Prompts, config \in Configs :
         LET args == [prompt |-> prompt, config |-> config]
             v == GenerateContentValidate(prompt) IN
         inv' = IF v # NoErr
                THEN Done("GenerateResponse", args, <<>>, NoOutcome, v, NilGenResponse, NoLoc)
                ELSE Await("GenerateResponse", args,
                           <<GenerateContentRequest(chat, prompt, config)>>, NoOutcome, NoLoc)
    /\ UNCHANGED <<env, chat, session, history, emb, embModelArg, live, prev, callers>>

GenerateResponseReturn ==
    /\ inv.pc = "await"
    /\ inv.op = "GenerateResponse"
    /\ \E o \in GenOutcomes :
         LET r == GenerateResponseResult(o) IN
         inv' = Done(inv.op, inv.args, inv.calls, o, r.err, r.resp, NoLoc)
    /\ UNCHANGED <<env, chat, session, history, emb, embModelArg, live, prev, callers>>

GenerateContent ==
    /\ inv.pc = "done"
    /\ ~chat.isNil
    /\ \E prompt \in Prompts, apiKey \in ArgKeys, config \in Configs :
         LET args == [prompt |-> prompt, apiKey |-> apiKey, config |-> config]
             v == GenerateContentValidate(prompt) IN
         inv' = IF v # NoErr
                THEN Done("GenerateContent", args, <<>>, NoOutcome, v, "", NoLoc)
                ELSE Await("GenerateContent", args,
                           <<GenerateContentRequest(chat, prompt, config)>>, NoOutcome, NoLoc)
    /\ UNCHANGED <<env, chat, session, history, emb, embModelArg, live, prev, callers>>

GenerateContentReturn ==
    /\ inv.pc = "await"
    /\ inv.op = "GenerateContent"
    /\ \E o \in GenOutcomes :
         LET r == GenerateContentResult(o) IN
         inv' = Done(inv.op, inv.args, inv.calls, o, r.err, r.text, NoLoc)
    /\ UNCHANGED <<env, chat, session, history, emb, embModelArg, live, prev, callers>>

(***************************************************************************)
(* Streaming.  The provider's streaming calls return at once an iterator   *)
(* over the responses to one request; nothing is sent before the caller    *)
(* iterates.  The iterator of a request is represented by that request.    *)
(***************************************************************************)
CacheKeys == {"", "ck"}

\* The iterator the provider returns for a streaming request.
ProviderStream(req) == [isNil |-> FALSE, iter |-> req]

\* Mutant: the streaming request names the default model.
GenerateContentStreamRequestDefaultModel(g, prompt, config) ==
    [api |-> "Models.GenerateContentStream", client |-> g.client,
     model |-> DefaultChatModel, text |-> prompt, config |-> config]

\* The provider request of GenerateContentStream.
GenerateContentStreamRequest(g, prompt, config) ==
    [api |-> "Models.GenerateContentStream", client |-> g.client, model |-> g.model,
     text |-> prompt, config |-> config]

\* Mutant: the cache key travels with the request.
GenerateContentStreamWithCacheRequestKeyed(g, prompt, config, cacheKey) ==
    IF cacheKey # ""
    THEN [api |-> "Models.GenerateContentStream", client |-> g.client, model |-> g.model,
          text |-> prompt, config |-> config, cache |-> cacheKey]
    ELSE GenerateContentStreamRequest(g, prompt, config)

\* The provider request of GenerateContentStreamWithCache: the cache key
\* is only logged.
GenerateContentStreamWithCacheRequest(g, prompt, config, cacheKey) ==
    [api |-> "Models.GenerateContentStream", client |-> g.client, model |-> g.model,
     text |-> prompt, config |-> config]

GenerateContentStream ==
    /\ inv.pc = "done"
    /\ ~chat.isNil
    /\ \E prompt \in Prompts, config \in Configs :
         LET req == GenerateContentStreamRequest(chat, prompt, config) IN
         inv' = Done("GenerateContentStream", [prompt |-> prompt, config |-> config],
                     <<req>>, NoOutcome, NoErr, ProviderStream(req), NoLoc)
    /\ UNCHANGED <<env, chat, session, history, emb, embModelArg, live, prev, callers>>

GenerateContentStreamWithCache ==
    /\ inv.pc = "done"
    /\ ~chat.isNil
    /\ \E prompt \in Prompts, config \in Configs, cacheKey \in CacheKeys :
         LET req == GenerateContentStreamWithCacheRequest(chat, prompt, config, cacheKey) IN
         inv' = Done("GenerateContentStreamWithCache",
                     [prompt |-> prompt, config |-> config, cacheKey |-> cacheKey],
                     <<req>>, NoOutcome, NoErr, ProviderStream(req), NoLoc)
    /\ UNCHANGED <<env, chat, session, history, emb, embModelArg, live, prev, callers>>

(***************************************************************************)
(* Chat session.  session.chat is the provider conversation handle;        *)
(* history is the conversation the provider keeps for that handle: the     *)
(* messages it accepted, in order.  loc.embeddings of a SendMessage record *)
(* holds the history as it was when the call began.                        *)
(***************************************************************************)
Messages == {"", "hi"}

\* Chats.Create either returns a handle or fails.
CreateOutcomes == {NoOutcome} \cup {[err |-> e, resp |-> Nil] : e \in ProviderErrs}

ChatsCreateRequest(g, config) ==
    [api |-> "Chats.Create", client |-> g.client, model |-> g.model, config |-> config]

\* StartChatSession, after Chats.Create.
StartChatSessionResult(g, config, o) ==
    IF o.err # NoErr THEN [session |-> Nil, err |-> o.err]
    ELSE [session |-> [isNil |-> FALSE, chat |-> [model |-> g.model, config |-> config]],
          err |-> NoErr]

StartChatSession ==
    /\ inv.pc = "done"
    /\ ~chat.isNil
    /\ \E config \in Configs :
         inv' = Await("StartChatSession", [config |-> config],
                      <<ChatsCreateRequest(chat, config)>>, NoOutcome, NoLoc)
    /\ UNCHANGED <<env, chat, session, history, emb, embModelArg, live, prev, callers>>

StartChatSessionReturn ==
    /\ inv.pc = "await"
    /\ inv.op = "StartChatSession"
    /\ \E o \in CreateOutcomes :
         LET r == StartChatSessionResult(chat, inv.args.config, o) IN
         /\ inv' = Done(inv.op, inv.args, inv.calls, o, r.err, r.session, NoLoc)
         /\ IF r.err = NoErr
            THEN session' = r.session /\ history' = <<>>
            ELSE UNCHANGED <<session, history>>
    /\ UNCHANGED <<env, chat, emb, embModelArg, live, prev, callers>>

\* Mutant: the message is checked before the provider call.
SendMessageValidateChecked(message) ==
    IF message = "" THEN Errorf("validation", "message cannot be empty") ELSE NoErr

\* SendMessage, before the provider call: the message goes to the handle
\* unchecked.
SendMessageValidate(message) == NoErr

\* Mutant: the first message of the conversation is sent again.
SendMessageRequestReplay(cs, message) ==
    [api |-> "Chat.SendMessage", chat |-> cs.chat,
     text |-> IF Len(history) > 0 THEN history[1] ELSE message]

\* The provider request of SendMessage.
SendMessageRequest(cs, message) ==
    [api |-> "Chat.SendMessage", chat |-> cs.chat, text |-> message]

\* SendMessage, after the provider call.
SendMessageResult(o) ==
    IF o.err # NoErr THEN [text |-> "", err |-> o.err]
    ELSE IF Len(o.resp.Candidates) > 0 /\ Len(o.resp.Candidates[1].Parts) > 0
    THEN [text |-> o.resp.Candidates[1].Parts[1], err |-> NoErr]
    ELSE [text |-> "", err |-> Errorf("response", "no response content")]

SendMessage ==
    /\ inv.pc = "done"
    /\ ~session.isNil
    /\ Len(history) < MaxHistory
    /\ \E message \in Messages :
         LET args == [message |-> message]
             v == SendMessageValidate(message)
             loc == [i |-> 0, embeddings |-> history] IN
         inv' = IF v # NoErr
                THEN Done("SendMessage", args, <<>>, NoOutcome, v, "", loc)
                ELSE Await("SendMessage", args, <<SendMessageRequest(session, message)>>,
                           NoOutcome, loc)
    /\ UNCHANGED <<env, chat, session, history, emb, embModelArg, live, prev, callers>>

\* The provider appends to the conversation the messages it accepts.
SendMessageReturn ==
    /\ inv.pc = "await"
    /\ inv.op = "SendMessage"
    /\ \E o \in GenOutcomes :
         LET r == SendMessageResult(o) IN
         /\ inv' = Done(inv.op, inv.args, inv.calls, o, r.err, r.text, inv.loc)
         /\ history' = IF o.err = NoErr THEN Append(history, inv.args.message) ELSE history
    /\ UNCHANGED <<env, chat, session, emb, embModelArg, live, prev, callers>>

\* The provider request of SendMessageStream.
SendMessageStreamRequest(cs, message) ==
    [api |-> "Chat.SendMessageStream", chat |-> cs.chat, text |-> message]

SendMessageStream ==
    /\ inv.pc = "done"
    /\ ~session.isNil
    /\ \E message \in Messages :
         LET req == SendMessageStreamRequest(session, message) IN
         inv' = Done("SendMessageStream", [message |-> message], <<req>>, NoOutcome,
                     NoErr, ProviderStream(req), [i |-> 0, embeddings |-> history])
    /\ UNCHANGED <<env, chat, session, history, emb, embModelArg, live, prev, callers>>

(***************************************************************************)
(* Live session.  live is the caller's *LiveSession: nil, a LiveSession    *)
(* without a provider session, or one holding the provider session that    *)
(* StartLiveSession connected.  session.closed tells whether the           *)
(* provider's Close has run on that provider session.                      *)
(***************************************************************************)
LiveModelNames == {"", "live-model"}
Texts == {"", "hello"}
AudioData == {<<>>, <<1>>}
MIMETypes == {"", "audio/wav"}
DefaultMIMEType == "audio/pcm"
ZeroLiveSession == [isNil |-> FALSE, session |-> Nil]

TextInput(text) == [Text |-> text, Audio |-> Nil]
AudioInput(mimeType, data) ==
    [Text |-> "", Audio |-> [isNil |-> FALSE, MIMEType |-> mimeType, Data |-> data]]
RealtimeInputs ==
    {TextInput(t) : t \in Texts} \cup
    {AudioInput(m, d) : m \in MIMETypes \cup {DefaultMIMEType}, d \in AudioData}

\* Live.Connect returns a session or fails; SendRealtimeInput and Close
\* of the provider session return nil or fail; Receive returns a server
\* message or fails.
ConnectOutcomes == {NoOutcome} \cup {[err |-> e, resp |-> Nil] : e \in ProviderErrs}
SendOutcomes == {NoOutcome} \cup {[err |-> e, resp |-> Nil] : e \in ProviderErrs}
ServerMessages == {[isNil |-> FALSE, text |-> "reply"]}
ReceiveOutcomes ==
    {[err |-> NoErr, resp |-> m] : m \in ServerMessages} \cup
    {[err |-> e, resp |-> Nil] : e \in ProviderErrs}

\* The provider session a LiveSession points to, as the target of a call.
Handle(sess) == [model |-> sess.model, cfg |-> sess.cfg]

\* A client value that no constructor filled in: its provider handle is nil.
ZeroChatClient == [isNil |-> FALSE, client |-> Nil, model |-> ""]

\* Mutant: the provider handle is not checked.
StartLiveSessionValidateNone(ai) == NoErr

StartLiveSessionValidate(ai) ==
    IF ai.client.isNil THEN Errorf("validation", "client not initialized") ELSE NoErr

LiveConnectRequest(ai, model, cfg) ==
    [api |-> "Live.Connect", client |-> ai.client,
     model |-> IF model = "" THEN ai.model ELSE model, cfg |-> cfg]

StartLiveSessionResult(req, o) ==
    IF o.err # NoErr THEN [live |-> Nil, err |-> o.err]
    ELSE [live |-> [isNil |-> FALSE,
                    session |-> [isNil |-> FALSE, model |-> req.model, cfg |-> req.cfg,
                                 closed |-> FALSE]],
          err |-> NoErr]

StartLiveSession ==
    /\ inv.pc = "done"
    /\ ~chat.isNil
    /\ \E model \in LiveModelNames, cfg \in Configs :
         LET args == [model |-> model, cfg |-> cfg]
             v == StartLiveSessionValidate(chat) IN
         inv' = IF v # NoErr
                THEN Done("StartLiveSession", args, <<>>, NoOutcome, v, Nil, NoLoc)
                ELSE Await("StartLiveSession", args, <<LiveConnectRequest(chat, model, cfg)>>,
                           NoOutcome, NoLoc)
    /\ UNCHANGED <<env, chat, session, history, emb, embModelArg, live, prev, callers>>

StartLiveSessionReturn ==
    /\ inv.pc = "await"
    /\ inv.op = "StartLiveSession"
    /\ \E o \in ConnectOutcomes :
         LET r == StartLiveSessionResult(inv.calls[1], o) IN
         /\ inv' = Done(inv.op, inv.args, inv.calls, o, r.err, r.live, NoLoc)
         /\ live' = IF r.err = NoErr THEN r.live ELSE live
    /\ UNCHANGED <<env, chat, session, history, emb, embModelArg, prev, callers>>

\* SendRealtimeInput and Receive, before the provider call.
SessionInitialized(s) ==
    IF s.isNil \/ s.session.isNil
    THEN Errorf("validation", "session not initialized")
    ELSE NoErr

SendRealtimeInputRequest(s, input) ==
    [api |-> "Session.SendRealtimeInput", session |-> Handle(s.session), input |-> input]

\* SendRealtimeInput(input) up to the provider call, for the operation op
\* that was called with args.
SendRealtimeInputCall(op, args, s, input) ==
    LET v == SessionInitialized(s) IN
    IF v # NoErr
    THEN Done(op, args, <<>>, NoOutcome, v, Nil, NoLoc)
    ELSE Await(op, args, <<SendRealtimeInputRequest(s, input)>>, NoOutcome, NoLoc)

SendRealtimeInput ==
    /\ inv.pc = "done"
    /\ \E input \in RealtimeInputs :
         inv' = SendRealtimeInputCall("SendRealtimeInput", [input |-> input], live, input)
    /\ UNCHANGED <<env, chat, session, history, emb, embModelArg, live, prev, callers>>

SendRealtimeInputReturn ==
    /\ inv.pc = "await"
    /\ inv.op = "SendRealtimeInput"
    /\ \E o \in SendOutcomes :
         inv' = Done(inv.op, inv.args, inv.calls, o, o.err, Nil, NoLoc)
    /\ UNCHANGED <<env, chat, session, history, emb, embModelArg, live, prev, callers>>

SendTextValidate(text) ==
    IF text = "" THEN Errorf("validation", "text is empty") ELSE NoErr

SendText ==
    /\ inv.pc = "done"
    /\ \E text \in Texts :
         LET args == [text |-> text]
             v == SendTextValidate(text) IN
         inv' = IF v # NoErr
                THEN Done("SendText", args, <<>>, NoOutcome, v, Nil, NoLoc)
                ELSE SendRealtimeInputCall("SendText", args, live, TextInput(text))
    /\ UNCHANGED <<env, chat, session, history, emb, embModelArg, live, prev, callers>>

SendTextReturn ==
    /\ inv.pc = "await"
    /\ inv.op = "SendText"
    /\ \E o \in SendOutcomes :
         inv' = Done(inv.op, inv.args, inv.calls, o, o.err, Nil, NoLoc)
    /\ UNCHANGED <<env, chat, session, history, emb, embModelArg, live, prev, callers>>

SendAudioPCMValidate(data) ==
    IF Len(data) = 0 THEN Errorf("validation", "audio data is empty") ELSE NoErr

\* Mutant: an empty MIME type is forwarded as it is.
AudioMIMETypeAsGiven(mimeType) == mimeType

\* The MIME type SendAudioPCM sends.
AudioMIMEType(mimeType) == IF mimeType = "" THEN DefaultMIMEType ELSE mimeType

SendAudioPCM ==
    /\ inv.pc = "done"
    /\ \E data \in AudioData, mimeType \in MIMETypes :
         LET args == [data |-> data, mimeType |-> mimeType]
             v == SendAudioPCMValidate(data) IN
         inv' = IF v # NoErr
                THEN Done("SendAudioPCM", args, <<>>, NoOutcome, v, Nil, NoLoc)
                ELSE SendRealtimeInputCall("SendAudioPCM", args, live,
                                           AudioInput(AudioMIMEType(mimeType), data))
    /\ UNCHANGED <<env, chat, session, history, emb, embModelArg, live, prev, callers>>

SendAudioPCMReturn ==
    /\ inv.pc = "await"
    /\ inv.op = "SendAudioPCM"
    /\ \E o \in SendOutcomes :
         inv' = Done(inv.op, inv.args, inv.calls, o, o.err, Nil, NoLoc)
    /\ UNCHANGED <<env, chat, session, history, emb, embModelArg, live, prev, callers>>

ReceiveRequest(s) == [api |-> "Session.Receive", session |-> Handle(s.session)]

Receive ==
    /\ inv.pc = "done"
    /\ LET v == SessionInitialized(live) IN
       inv' = IF v # NoErr
              THEN Done("Receive", Nil, <<>>, NoOutcome, v, Nil, NoLoc)
              ELSE Await("Receive", Nil, <<ReceiveRequest(live)>>, NoOutcome, NoLoc)
    /\ UNCHANGED <<env, chat, session, history, emb, embModelArg, live, prev, callers>>

ReceiveReturn ==
    /\ inv.pc = "await"
    /\ inv.op = "Receive"
    /\ \E o \in ReceiveOutcomes :
         inv' = Done(inv.op, inv.args, inv.calls, o, o.err, o.resp, NoLoc)
    /\ UNCHANGED <<env, chat, session, history, emb, embModelArg, live, prev, callers>>

\* LiveSession.Close returns nil at once only for a nil LiveSession or a
\* nil provider session.
LiveCloseSkips(s) == s.isNil \/ s.session.isNil

LiveCloseRequest(s) == [api |-> "Session.Close", session |-> Handle(s.session)]

LiveClose ==
    /\ inv.pc = "done"
    /\ inv' = IF LiveCloseSkips(live)
              THEN Done("LiveSession.Close", Nil, <<>>, NoOutcome, NoErr, Nil, NoLoc)
              ELSE Await("LiveSession.Close", Nil, <<LiveCloseRequest(live)>>, NoOutcome, NoLoc)
    /\ UNCHANGED <<env, chat, session, history, emb, embModelArg, live, prev, callers>>

\* The provider's Close has run: the provider session is closed.  What the
\* provider returns, on an open or on a closed session, is its own matter.
LiveCloseReturn ==
    /\ inv.pc = "await"
    /\ inv.op = "LiveSession.Close"
    /\ \E o \in SendOutcomes :
         inv' = Done(inv.op, inv.args, inv.calls, o, o.err, Nil, NoLoc)
    /\ live' = [live EXCEPT !.session.closed = TRUE]
    /\ UNCHANGED <<env, chat, session, history, emb, embModelArg, prev, callers>>

(***************************************************************************)
(* Concurrent use of one chat client and one embedding client: each caller *)
(* runs the handlers of the sections above on the shared clients, and the  *)
(* callers' steps interleave at the provider calls.                        *)
(***************************************************************************)
ConcurrentQueries == {"", "a"}

ConcStartChatSession(c) ==
    /\ callers[c].pc = "done"
    /\ \E config \in Configs :
         callers' = [callers EXCEPT ![c] =
                        Await("StartChatSession", [config |-> config],
                              <<ChatsCreateRequest(chat, config)>>, NoOutcome, NoLoc)]
    /\ UNCHANGED <<env, chat, session, history, emb, embModelArg, live, prev, inv>>

ConcStartChatSessionReturn(c) ==
    /\ callers[c].pc = "await"
    /\ callers[c].op = "StartChatSession"
    /\ \E o \in CreateOutcomes :
         LET i == callers[c]
             r == StartChatSessionResult(chat, i.args.config, o) IN
         /\ callers' = [callers EXCEPT ![c] =
                           Done(i.op, i.args, i.calls, o, r.err, r.session, NoLoc)]
         /\ IF r.err = NoErr
            THEN session' = r.session /\ history' = <<>>
            ELSE UNCHANGED <<session, history>>
    /\ UNCHANGED <<env, chat, emb, embModelArg, live, prev, inv>>

ConcGenerateContentStream(c) ==
    /\ callers[c].pc = "done"
    /\ \E prompt \in Prompts, config \in Configs :
         LET req == GenerateContentStreamRequest(chat, prompt, config) IN
         callers' = [callers EXCEPT ![c] =
                        Done("GenerateContentStream", [prompt |-> prompt, config |-> config],
                             <<req>>, NoOutcome, NoErr, ProviderStream(req), NoLoc)]
    /\ UNCHANGED <<env, chat, session, history, emb, embModelArg, live, prev, inv>>

ConcGenerateQueryEmbedding(c) ==
    /\ callers[c].pc = "done"
    /\ \E query \in ConcurrentQueries :
         LET args == [query |-> query]
             v == GenerateEmbeddingValidate(query) IN
         callers' = [callers EXCEPT ![c] =
                        IF v # NoErr
                        THEN Done("GenerateQueryEmbedding", args, <<>>, NoOutcome,
                                  GenerateQueryEmbeddingWrap(v), NilVec, NoLoc)
                        ELSE Await("GenerateQueryEmbedding", args,
                                   <<EmbedContentRequest(emb, query, NilConfig)>>,
                                   NoOutcome, NoLoc)]
    /\ UNCHANGED <<env, chat, session, history, emb, embModelArg, live, prev, inv>>

ConcGenerateQueryEmbeddingReturn(c) ==
    /\ callers[c].pc = "await"
    /\ callers[c].op = "GenerateQueryEmbedding"
    /\ \E o \in EmbedOutcomes :
         LET i == callers[c]
             r == GenerateEmbeddingResult(o) IN
         \* the caller keeps what the handler returned, not the response
         callers' = [callers EXCEPT ![c] =
                        Done(i.op, i.args, i.calls, NoOutcome,
                             GenerateQueryEmbeddingWrap(r.err), r.vec, NoLoc)]
    /\ UNCHANGED <<env, chat, session, history, emb, embModelArg, live, prev, inv>>

ConcClose(c) ==
    /\ callers[c].pc = "done"
    /\ callers' = [callers EXCEPT ![c] = Done("Close", Nil, <<>>, NoOutcome, NoErr, Nil, NoLoc)]
    /\ emb' = ClientAfterClose(emb)
    /\ UNCHANGED <<env, chat, session, history, embModelArg, live, prev, inv>>

(***************************************************************************)
(* Specifications.  The process environment is fixed when the process      *)
(* starts; no client exists before its constructor ran.                    *)
(***************************************************************************)
Init ==
    /\ env \in EnvValues
    /\ chat = Nil
    /\ session = Nil
    /\ history = <<>>
    /\ emb = Nil
    /\ embModelArg = ""
    /\ live = Nil
    /\ prev = NoPrevious
    /\ callers = NoCallers
    /\ inv = Idle

NextEmbedding ==
    \/ NewGeminiEmbeddingClient
    \/ GenerateEmbedding
    \/ GenerateEmbeddingReturn
    \/ GenerateQueryEmbedding
    \/ GenerateQueryEmbeddingReturn
    \/ BatchGenerateEmbeddings
    \/ BatchGenerateEmbeddingsReturn
    \/ Close

SpecEmbedding == Init /\ [][NextEmbedding]_vars

\* The embedding client's convenience formatters.
NextFormat ==
    \/ NewGeminiEmbeddingClient
    \/ GeneratePOIEmbedding
    \/ GeneratePOIEmbeddingReturn
    \/ GenerateCityEmbedding
    \/ GenerateCityEmbeddingReturn
    \/ GenerateUserPreferenceEmbedding
    \/ GenerateUserPreferenceEmbeddingReturn

SpecFormat == Init /\ [][NextFormat]_vars

NextChat ==
    \/ NewGeminiChatClient
    \/ GenerateResponse
    \/ GenerateResponseReturn
    \/ GenerateContent
    \/ GenerateContentReturn
    \/ GenerateContentStream
    \/ GenerateContentStreamWithCache

SpecChat == Init /\ [][NextChat]_vars

NextSession ==
    \/ NewGeminiChatClient
    \/ StartChatSession
    \/ StartChatSessionReturn
    \/ SendMessage
    \/ SendMessageReturn
    \/ SendMessageStream

SpecSession == Init /\ [][NextSession]_vars

\* The chat client's operations that name a model to the provider.
NextChatModel ==
    \/ NextChat
    \/ StartChatSession
    \/ StartChatSessionReturn

SpecChatModel == Init /\ [][NextChatModel]_vars

\* A caller of the live API starts with a nil *LiveSession or with a
\* LiveSession value of its own, which has no provider session, and with
\* no client or with a client value of its own, which has no provider
\* handle.
InitLive ==
    /\ env \in EnvValues
    /\ chat \in {Nil, ZeroChatClient}
    /\ session = Nil
    /\ history = <<>>
    /\ emb = Nil
    /\ embModelArg = ""
    /\ live \in {Nil, ZeroLiveSession}
    /\ prev = NoPrevious
    /\ callers = NoCallers
    /\ inv = Idle

NextLive ==
    \/ NewGeminiChatClient
    \/ StartLiveSession
    \/ StartLiveSessionReturn
    \/ SendRealtimeInput
    \/ SendRealtimeInputReturn
    \/ SendText
    \/ SendTextReturn
    \/ SendAudioPCM
    \/ SendAudioPCMReturn
    \/ Receive
    \/ ReceiveReturn
    \/ LiveClose
    \/ LiveCloseReturn

SpecLive == InitLive /\ [][NextLive]_vars

\* Both clients have been constructed once, with any arguments their
\* constructors accept; the callers share them.
InitConcurrent ==
    /\ env \in EnvValues
    /\ chat \in {NewGeminiChatClientResult(k, m).client : k \in ApiKeys, m \in ModelNames}
    /\ ~chat.isNil
    /\ session = Nil
    /\ history = <<>>
    /\ embModelArg \in ModelNames
    /\ emb \in {NewGeminiEmbeddingClientResult(k, embModelArg, Logger).client : k \in ApiKeys}
    /\ ~emb.isNil
    /\ live = Nil
    /\ prev = NoPrevious
    /\ callers = NoCallers
    /\ inv = Idle

NextConcurrent ==
    \E c \in Callers :
        \/ ConcStartChatSession(c)
        \/ ConcStartChatSessionReturn(c)
        \/ ConcGenerateContentStream(c)
        \/ ConcGenerateQueryEmbedding(c)
        \/ ConcGenerateQueryEmbeddingReturn(c)
        \/ ConcClose(c)

SpecConcurrent == InitConcurrent /\ [][NextConcurrent]_vars

(***************************************************************************)
(* Properties.                                                             *)
(***************************************************************************)
IsOp(op) == inv.op = op
Finished(op) == inv.op = op /\ inv.pc = "done"
HasContent(resp) == Len(resp.Candidates) > 0 /\ Len(resp.Candidates[1].Parts) > 0
\* The provider outcome o gives GenerateEmbedding no usable vector.
NoUsableEmbedding(o) ==
    \/ o.err # NoErr
    \/ o.resp.isNil
    \/ Len(o.resp.Embeddings) = 0
    \/ o.resp.Embeddings[1].isNil
    \/ Len(o.resp.Embeddings[1].Values) = 0

\* C1 as stated: GenerateContent and GenerateResponse called with the empty
\* prompt fail with a locally produced InvalidArgument error and make no
\* provider Models.GenerateContent call.
C1_EmptyPromptRejectedLocally ==
    ((IsOp("GenerateContent") \/ IsOp("GenerateResponse")) /\ inv.args.prompt = "")
        => /\ inv.pc = "done"
           /\ inv.err.origin = "validation"
           /\ inv.calls = <<>>

\* C1 amended: GenerateContent and GenerateResponse do not check the prompt.
\* Called with the empty prompt, each issues exactly one provider
\* Models.GenerateContent request, which carries the empty prompt, the
\* client's model and the caller's config; the call fails exactly when the
\* provider call fails or (GenerateContent) the response has no candidate
\* content, and its error is never a local validation error.
C1_EmptyPromptForwarded ==
    ((IsOp("GenerateContent") \/ IsOp("GenerateResponse")) /\ inv.args.prompt = "")
        => /\ inv.calls = <<[api |-> "Models.GenerateContent", client |-> chat.client,
                             model |-> chat.model, text |-> "",
                             config |-> inv.args.config]>>
           /\ inv.pc = "done" =>
                /\ inv.err.origin # "validation"
                /\ (inv.err # NoErr) <=>
                      \/ inv.resp.err # NoErr
                      \/ IsOp("GenerateContent") /\ ~HasContent(inv.resp.resp)

C1_Witness ==
    /\ Finished("GenerateResponse")
    /\ inv.args.prompt = ""
    /\ inv.err = NoErr
    /\ Len(inv.calls) = 1

\* C2: GenerateEmbedding with the empty text fails with an error and makes no
\* provider EmbedContent call; GenerateQueryEmbedding with the empty query
\* does the same, and its error wraps the GenerateEmbedding error.
C2_EmptyTextFailsLocally ==
    /\ (IsOp("GenerateEmbedding") /\ inv.args.text = "")
          => /\ inv.pc = "done"
             /\ inv.calls = <<>>
             /\ inv.out = NilVec
             /\ inv.err = [origin |-> "validation",
                           chain |-> <<Frame("text cannot be empty", NoIndex)>>]
    /\ (IsOp("GenerateQueryEmbedding") /\ inv.args.query = "")
          => /\ inv.pc = "done"
             /\ inv.calls = <<>>
             /\ inv.out = NilVec
             /\ inv.err = [origin |-> "validation",
                           chain |-> <<Frame("failed to generate query embedding", NoIndex),
                                       Frame("text cannot be empty", NoIndex)>>]

C2_Witness ==
    /\ Finished("GenerateQueryEmbedding")
    /\ inv.args.query = ""
    /\ inv.err # NoErr

\* C3 as stated: SendMessage called with the empty message fails with a
\* locally produced InvalidArgument error, forwards nothing to the provider
\* chat handle, and leaves the provider-side history as it was.
C3_EmptyMessageRejectedLocally ==
    (IsOp("SendMessage") /\ inv.args.message = "")
        => /\ inv.pc = "done"
           /\ inv.err.origin = "validation"
           /\ inv.calls = <<>>
           /\ history = inv.loc.embeddings

\* C3 amended: SendMessage does not check the message.  Called with the empty
\* message it forwards the empty message to the session's provider chat
\* handle exactly once; the call fails exactly when the provider call fails
\* or the reply has no content, and its error is never a local validation
\* error.
C3_EmptyMessageForwarded ==
    (IsOp("SendMessage") /\ inv.args.message = "")
        => /\ inv.calls = <<[api |-> "Chat.SendMessage", chat |-> session.chat, text |-> ""]>>
           /\ inv.pc = "done" =>
                /\ inv.err.origin # "validation"
                /\ (inv.err # NoErr) <=>
                      (inv.resp.err # NoErr \/ ~HasContent(inv.resp.resp))

C3_Witness ==
    /\ Finished("SendMessage")
    /\ inv.args.message = ""
    /\ inv.err = NoErr
    /\ history = Append(inv.loc.embeddings, "")

\* C4: for a non-empty list of texts, BatchGenerateEmbeddings returns either
\* a vector list of the length of the input whose i-th vector is the
\* GenerateEmbedding result for the i-th text, or an error that names the
\* smallest index at which GenerateEmbedding failed.  The state part is about
\* the returned values; the step part says that the outcome of the provider
\* request for the i-th text, and nothing else, fills the i-th vector.
C4_BatchReturned ==
    (Finished("BatchGenerateEmbeddings") /\ Len(inv.args.texts) > 0) =>
        LET texts == inv.args.texts IN
        IF inv.err = NoErr
        THEN /\ ~inv.out.isNil
             /\ Len(inv.out.vecs) = Len(texts)
             /\ inv.out.vecs = inv.loc.embeddings
             /\ \A k \in 1..Len(texts) :
                   ~inv.out.vecs[k].isNil /\ Len(inv.out.vecs[k].Values) > 0
        ELSE LET f == inv.err.chain[1].index + 1 IN
             /\ inv.err.chain[1].msg = "failed to generate embedding for text at index"
             /\ f \in 1..Len(texts)
             /\ texts[f] = "" \/ NoUsableEmbedding(inv.resp)
             /\ \A k \in 1..(f - 1) :
                   /\ texts[k] # ""
                   /\ ~inv.loc.embeddings[k].isNil
                   /\ Len(inv.loc.embeddings[k].Values) > 0

C4_BatchItemStep ==
    (IsOp("BatchGenerateEmbeddings") /\ inv.pc = "await" /\ inv' # inv) =>
        LET i == Len(inv.calls)
            o == inv'.resp IN
        /\ inv.calls[i].text = inv.args.texts[i]
        /\ ~NoUsableEmbedding(o) =>
              inv'.loc.embeddings[i] = Vec(o.resp.Embeddings[1].Values)
        /\ \A k \in (1..Len(inv.args.texts)) \ {i} :
              inv'.loc.embeddings[k] = inv.loc.embeddings[k]

C4_BatchResult == []C4_BatchReturned /\ [][C4_BatchItemStep]_vars

C4_Witness ==
    /\ Finished("BatchGenerateEmbeddings")
    /\ Len(inv.args.texts) = 2
    /\ inv.err = NoErr
    /\ inv.out.vecs[1] # inv.out.vecs[2]

\* C5: BatchGenerateEmbeddings issues its provider requests in index order,
\* one at a time, and fails fast: when the item at index i fails (an empty
\* string fails without a request), no request is issued for a greater index
\* and the call returns a nil result with the error.
C5_BatchSequentialFailFast ==
    (IsOp("BatchGenerateEmbeddings") /\ Len(inv.args.texts) > 0) =>
        LET texts == inv.args.texts
            i == inv.loc.i IN
        /\ Len(inv.calls) <= Len(texts)
        /\ \A k \in 1..Len(inv.calls) :
              /\ inv.calls[k].api = "Models.EmbedContent"
              /\ inv.calls[k].text = texts[k]
        /\ inv.pc = "await" => Len(inv.calls) = i
        /\ (inv.pc = "done" /\ inv.err = NoErr) => Len(inv.calls) = Len(texts)
        /\ (inv.pc = "done" /\ inv.err # NoErr) =>
              /\ inv.out = NilVecs
              /\ inv.err.chain[1].index = i - 1
              /\ Len(inv.calls) = IF texts[i] = "" THEN i - 1 ELSE i

C5_Witness ==
    /\ Finished("BatchGenerateEmbeddings")
    /\ Len(inv.args.texts) = 2
    /\ inv.args.texts[2] # ""
    /\ inv.err # NoErr
    /\ inv.loc.i = 1
    /\ Len(inv.calls) = 1

C7_NoEmptyVector ==
    Finished("GenerateEmbedding") =>
        /\ inv.err = NoErr => (~inv.out.isNil /\ Len(inv.out.Values) > 0)
        /\ inv.calls # <<>> =>
              IF NoUsableEmbedding(inv.resp)
              THEN inv.err # NoErr /\ inv.out = NilVec
              ELSE inv.err = NoErr /\ inv.out = Vec(inv.resp.resp.Embeddings[1].Values)

C7_Witness ==
    /\ Finished("GenerateEmbedding")
    /\ inv.err = NoErr
    /\ Len(inv.resp.resp.Embeddings) = 2
    /\ inv.resp.resp.Embeddings[2] # inv.resp.resp.Embeddings[1]

\* C8 as stated: constructing the chat client with an empty API key while
\* GEMINI_API_KEY is unset fails with an InvalidArgument error detected by
\* this layer and a nil client; constructing it with a non-empty key succeeds
\* and Model() of the client is non-empty.
C8_EmptyKeyRejectedLocally ==
    IsOp("NewGeminiChatClient") =>
        /\ (inv.args.apiKey = "" /\ env = "")
              => (inv.err.origin = "validation" /\ inv.out.isNil)
        /\ inv.args.apiKey # ""
              => (inv.err = NoErr /\ ~inv.out.isNil /\ Model(inv.out) # "")

\* C8 amended: constructing the chat client with an empty API key while
\* GEMINI_API_KEY is unset fails with a nil client; the error is the provider
\* library's (genai.NewClient rejects the empty key), returned unwrapped, and
\* not one detected by this layer.  Constructing it with a non-empty key
\* succeeds and Model() of the client is non-empty.
C8_EmptyKeyRejectedByProvider ==
    IsOp("NewGeminiChatClient") =>
        /\ (inv.args.apiKey = "" /\ env = "")
              => /\ inv.err = genaiNewClient("").err
                 /\ inv.err.origin = "provider"
                 /\ inv.out.isNil
        /\ inv.args.apiKey # ""
              => (inv.err = NoErr /\ ~inv.out.isNil /\ Model(inv.out) # "")

C8_Witness ==
    /\ IsOp("NewGeminiChatClient")
    /\ inv.args.apiKey = ""
    /\ env = ""
    /\ inv.err # NoErr
    /\ chat.isNil

\* C9: constructing the embedding client with an empty explicit API key
\* succeeds when GEMINI_API_KEY is set to a non-empty value, returning a
\* client whose provider handle and logger are non-nil, and fails when the
\* explicit key is empty and the variable is unset.
C9_EnvFallback ==
    (IsOp("NewGeminiEmbeddingClient") /\ inv.args.apiKey = "") =>
        IF env # ""
        THEN /\ inv.err = NoErr
             /\ ~inv.out.isNil
             /\ ~inv.out.client.isNil
             /\ inv.out.logger = Logger
        ELSE inv.err # NoErr /\ inv.out.isNil

\* C10: every provider EmbedContent request made through an embedding client
\* names the modelName given to NewGeminiEmbeddingClient when that was
\* non-empty, and the default embedding model only when it was empty.
C10_ModelOverride ==
    \A k \in 1..Len(inv.calls) :
        inv.calls[k].api = "Models.EmbedContent" =>
            inv.calls[k].model = IF embModelArg = "" THEN EmbeddingModel ELSE embModelArg

(***************************************************************************)
(* C11: a chat client constructed with a non-empty model name m answers    *)
(* Model() with m from then on, and every provider request of              *)
(* GenerateResponse, GenerateContent, GenerateContentStream,               *)
(* GenerateContentStreamWithCache and StartChatSession names m: the        *)
(* constructor stores m, only a constructor replaces the client, and every *)
(* request names the stored model.                                         *)
(***************************************************************************)
ModelNamingOps ==
    {"GenerateResponse", "GenerateContent", "GenerateContentStream",
     "GenerateContentStreamWithCache", "StartChatSession"}

C11_ConstructorStoresModel ==
    (Finished("NewGeminiChatClient") /\ inv.err = NoErr /\ inv.args.modelName # "") =>
        (Model(inv.out) = inv.args.modelName /\ chat = inv.out)

C11_RequestsNameModel ==
    inv.op \in ModelNamingOps =>
        /\ Len(inv.calls) = 1
        /\ inv.calls[1].model = Model(chat)

C11_OnlyConstructorReplacesClient ==
    chat' # chat => (inv'.op = "NewGeminiChatClient" /\ inv'.err = NoErr /\ chat' = inv'.out)

C11_ModelNameKept ==
    /\ [](C11_ConstructorStoresModel /\ C11_RequestsNameModel)
    /\ [][C11_OnlyConstructorReplacesClient]_vars

C11_Witness ==
    /\ Finished("StartChatSession")
    /\ inv.err = NoErr
    /\ Model(chat) = "m1"
    /\ inv.calls[1].model = "m1"

(***************************************************************************)
(* C12: the default models are the documented ones: a chat client          *)
(* constructed with an empty model name uses DocumentedChatModel, and the  *)
(* embedding requests of a client constructed with an empty model name     *)
(* name DocumentedEmbeddingModel.                                          *)
(***************************************************************************)
DocumentedChatModel == "gemini-2.0-flash"
DocumentedEmbeddingModel == "gemini-embedding-exp-03-07"

C12_DocumentedDefaults ==
    /\ (Finished("NewGeminiChatClient") /\ inv.err = NoErr /\ inv.args.modelName = "") =>
           Model(inv.out) = DocumentedChatModel
    /\ (~chat.isNil /\ inv.op \in ModelNamingOps /\ Model(chat) = DefaultChatModel) =>
           \A k \in 1..Len(inv.calls) : inv.calls[k].model = DocumentedChatModel
    /\ embModelArg = "" =>
           \A k \in 1..Len(inv.calls) :
               inv.calls[k].api = "Models.EmbedContent" =>
                   inv.calls[k].model = DocumentedEmbeddingModel

(***************************************************************************)
(* C13: two calls of GeneratePOIEmbedding, or two calls of                 *)
(* GenerateCityEmbedding, with the same field values send the provider the *)
(* same text: a call that follows a call of the same formatter with the    *)
(* same arguments either fails locally as that one did or issues a         *)
(* request with the same text.                                             *)
(***************************************************************************)
FieldFormatters == {"GeneratePOIEmbedding", "GenerateCityEmbedding"}

SameCallAgain(ops) ==
    /\ inv.op \in ops
    /\ prev.op = inv.op
    /\ prev.args = inv.args

C14_SamePreferencesSameText ==
    SameCallAgain({"GenerateUserPreferenceEmbedding"}) => RequestTexts(inv) = prev.texts

(***************************************************************************)
(* C18: the cache key never changes behaviour: for every prompt, config    *)
(* and cache key, GenerateContentStreamWithCache issues the request        *)
(* GenerateContentStream issues for that prompt and config, returns the    *)
(* provider's sequence for it and a nil error; it changes no state, and a  *)
(* repeated call with the same arguments issues a request again.           *)
(***************************************************************************)
C18_SameAsUncached ==
    IsOp("GenerateContentStreamWithCache") =>
        LET req == GenerateContentStreamRequest(chat, inv.args.prompt, inv.args.config) IN
        /\ inv.pc = "done"
        /\ inv.calls = <<req>>
        /\ inv.out = ProviderStream(req)
        /\ inv.err = NoErr

C18_NothingStored ==
    (inv'.op = "GenerateContentStreamWithCache" /\ inv' # inv) =>
        /\ UNCHANGED <<env, chat, session, history, emb, embModelArg, live, prev, callers>>
        /\ Len(inv'.calls) = 1

C18_CacheKeyIgnored == []C18_SameAsUncached /\ [][C18_NothingStored]_vars

C18_Witness ==
    /\ Finished("GenerateContentStreamWithCache")
    /\ inv.args.cacheKey = "ck"
    /\ inv.args.prompt = "a"
    /\ inv.calls = <<GenerateContentStreamRequest(chat, "a", inv.args.config)>>

(***************************************************************************)
(* C19: a chat session keeps the provider conversation handle set by       *)
(* StartChatSession and no messages of its own: every SendMessage and      *)
(* SendMessageStream sends that handle one request, carrying the call's    *)
(* own message, whatever was sent before.                                  *)
(***************************************************************************)
SendOps == {"SendMessage", "SendMessageStream"}

C19_OwnMessageOnce ==
    inv.op \in SendOps =>
        /\ Len(inv.calls) = 1
        /\ inv.calls[1].chat = session.chat
        /\ inv.calls[1].text = inv.args.message

C19_HandleKept ==
    /\ session' # session =>
           (inv'.op = "StartChatSession" /\ inv'.err = NoErr /\ session' = inv'.out)
    /\ inv'.op \in SendOps => session' = session

C19_SessionForwardsOnly == []C19_OwnMessageOnce /\ [][C19_HandleKept]_vars

C19_Witness ==
    /\ Finished("SendMessage")
    /\ inv.loc.embeddings = <<"hi">>
    /\ inv.args.message = ""
    /\ inv.calls = <<SendMessageRequest(session, "")>>

(***************************************************************************)
(* C20: when a provider call fails, the operation that made the call       *)
(* returns the provider's error wrapped in a message of its own, never the *)
(* provider's error itself.                                                *)
(***************************************************************************)
Wraps(err, cause) ==
    /\ Len(err.chain) > Len(cause.chain)
    /\ SubSeq(err.chain, Len(err.chain) - Len(cause.chain) + 1, Len(err.chain)) = cause.chain

C20_ProviderErrorsWrapped ==
    (inv.pc = "done" /\ inv.resp.err # NoErr) => Wraps(inv.err, inv.resp.err)

(***************************************************************************)
(* C16: LiveSession.Close is idempotent and safe in every state: on a nil  *)
(* LiveSession, on one without a provider session, and on one whose        *)
(* provider session is already closed, Close returns nil at once, calls    *)
(* the provider not at all and changes nothing.                            *)
(***************************************************************************)
NothingLeftToClose(s) == s.isNil \/ s.session.isNil \/ s.session.closed

C16_CloseIdempotent ==
    [][(inv.pc = "done" /\ inv' # inv /\ inv'.op = "LiveSession.Close"
            /\ NothingLeftToClose(live)) =>
          /\ inv'.pc = "done"
          /\ inv'.err = NoErr
          /\ inv'.calls = <<>>
          /\ live' = live]_vars

(***************************************************************************)
(* C17: SendText with an empty text and SendAudioPCM with no data fail     *)
(* with a validation error and send the provider nothing; with a payload,  *)
(* on a LiveSession that has a provider session, each sends that session   *)
(* exactly one realtime input carrying the payload (audio with MIME type   *)
(* "audio/pcm" when none is given) and returns what the provider returns.  *)
(***************************************************************************)
HasProviderSession(s) == ~s.isNil /\ ~s.session.isNil

C17_EmptyPayloadRejected ==
    /\ (IsOp("SendText") /\ inv.args.text = "") =>
           (inv.pc = "done" /\ inv.err.origin = "validation" /\ inv.calls = <<>>)
    /\ (IsOp("SendAudioPCM") /\ Len(inv.args.data) = 0) =>
           (inv.pc = "done" /\ inv.err.origin = "validation" /\ inv.calls = <<>>)

C17_PayloadForwardedOnce ==
    /\ (IsOp("SendText") /\ inv.args.text # "" /\ HasProviderSession(live)) =>
           /\ Len(inv.calls) = 1
           /\ inv.calls[1].api = "Session.SendRealtimeInput"
           /\ inv.calls[1].session = Handle(live.session)
           /\ inv.calls[1].input = [Text |-> inv.args.text, Audio |-> Nil]
           /\ inv.pc = "done" => inv.err = inv.resp.err
    /\ (IsOp("SendAudioPCM") /\ Len(inv.args.data) > 0 /\ HasProviderSession(live)) =>
           /\ Len(inv.calls) = 1
           /\ inv.calls[1].api = "Session.SendRealtimeInput"
           /\ inv.calls[1].session = Handle(live.session)
           /\ inv.calls[1].input.Text = ""
           /\ inv.calls[1].input.Audio.Data = inv.args.data
           /\ inv.calls[1].input.Audio.MIMEType =
                  IF inv.args.mimeType = "" THEN "audio/pcm" ELSE inv.args.mimeType
           /\ inv.pc = "done" => inv.err = inv.resp.err

C17_LivePayloads == C17_EmptyPayloadRejected /\ C17_PayloadForwardedOnce

C17_Witness ==
    /\ Finished("SendAudioPCM")
    /\ inv.args = [data |-> <<1>>, mimeType |-> ""]
    /\ Len(inv.calls) = 1
    /\ inv.calls[1].input.Audio.MIMEType = "audio/pcm"
    /\ inv.resp.err # NoErr
    /\ inv.err = inv.resp.err

(***************************************************************************)
(* C21: when the caller's context has expired, the error of the provider   *)
(* call reaches the caller.  As claimed: every operation returns that very *)
(* error value (C21_ContextErrorUnchanged).  As the code has it: the chat  *)
(* client and the chat session return that very value, the embedding       *)
(* client returns it wrapped, the provider's error innermost in the chain  *)
(* (C21_ContextErrorPropagated).                                           *)
(***************************************************************************)
ContextErr == [origin |-> "provider", chain |-> <<Frame("context deadline exceeded", NoIndex)>>]

EmbeddingOps ==
    {"GenerateEmbedding", "GenerateQueryEmbedding", "BatchGenerateEmbeddings",
     "GeneratePOIEmbedding", "GenerateCityEmbedding", "GenerateUserPreferenceEmbedding"}

C21_ContextErrorUnchanged ==
    (inv.pc = "done" /\ inv.resp.err = ContextErr) => inv.err = ContextErr

C21_ContextErrorPropagated ==
    (inv.pc = "done" /\ inv.resp.err = ContextErr) =>
        IF inv.op \in EmbeddingOps
        THEN Wraps(inv.err, ContextErr) /\ inv.err.origin = "provider"
        ELSE inv.err = ContextErr

C21_Witness ==
    /\ Finished("GenerateQueryEmbedding")
    /\ inv.resp.err = ContextErr
    /\ Len(inv.err.chain) = 3
    /\ inv.err.chain[3] = ContextErr.chain[1]

(***************************************************************************)
(* C22: GeneratePOIEmbedding and GenerateCityEmbedding reject a name that  *)
(* is empty or only whitespace with an error of their own before any       *)
(* provider call, whatever the other fields; with any other name they make *)
(* exactly one embedding request.                                          *)
(***************************************************************************)
BlankNames == {"", " "}

C22_BlankNameRejected ==
    inv.op \in FieldFormatters =>
        IF inv.args.name \in BlankNames
        THEN inv.pc = "done" /\ inv.err.origin = "validation" /\ inv.calls = <<>>
        ELSE Len(inv.calls) = 1 /\ inv.calls[1].api = "Models.EmbedContent"

C22_Witness ==
    /\ Finished("GeneratePOIEmbedding")
    /\ inv.args.name = " "
    /\ inv.args.description = "museum"
    /\ inv.err.origin = "validation"
    /\ inv.calls = <<>>

(***************************************************************************)
(* C23: GenerateUserPreferenceEmbedding never fails with a validation      *)
(* error: for every interests list and preferences map, empty ones         *)
(* included, it issues exactly one embedding request with a non-empty      *)
(* text, and it fails exactly when the provider fails or returns no usable *)
(* embedding.                                                              *)
(***************************************************************************)
C23_PreferencesAlwaysSent ==
    IsOp("GenerateUserPreferenceEmbedding") =>
        /\ Len(inv.calls) = 1
        /\ inv.calls[1].text # ""
        /\ inv.pc = "done" =>
               /\ inv.err.origin # "validation"
               /\ (inv.err # NoErr) <=> NoUsableEmbedding(inv.resp)

C23_Witness ==
    /\ Finished("GenerateUserPreferenceEmbedding")
    /\ inv.args = [interests |-> <<>>, preferences |-> NoPreferences]
    /\ inv.calls[1].text = "User Interests: "
    /\ inv.err = NoErr

(***************************************************************************)
(* C30: the text GeneratePOIEmbedding sends is "Name: <name>\nCategory:    *)
(* <category>", the text GenerateCityEmbedding sends is "City: <name>,     *)
(* Country: <country>", each followed by "\nDescription: <description>"    *)
(* exactly when the description is not empty; the name is sent as given,   *)
(* untrimmed, and the config passed is nil.                                *)
(***************************************************************************)
DescriptionLine(description) ==
    IF description # "" THEN "\nDescription: " \o description ELSE ""

C30_TextsAsDocumented ==
    /\ (IsOp("GeneratePOIEmbedding") /\ inv.args.name \notin BlankNames) =>
           /\ Len(inv.calls) = 1
           /\ inv.calls[1].text =
                  "Name: " \o inv.args.name \o "\nCategory: " \o inv.args.category
                      \o DescriptionLine(inv.args.description)
           /\ inv.calls[1].config = NilConfig
    /\ (IsOp("GenerateCityEmbedding") /\ inv.args.name \notin BlankNames) =>
           /\ Len(inv.calls) = 1
           /\ inv.calls[1].text =
                  "City: " \o inv.args.name \o ", Country: " \o inv.args.country
                      \o DescriptionLine(inv.args.description)
           /\ inv.calls[1].config = NilConfig

C30_Witness ==
    /\ Finished("GenerateCityEmbedding")
    /\ inv.args = [name |-> " Louvre ", country |-> "France", description |-> ""]
    /\ inv.calls[1].text = "City:  Louvre , Country: France"
    /\ inv.calls[1].config.isNil

(***************************************************************************)
(* C24: BatchGenerateEmbeddings called with an empty list fails with an    *)
(* error of its own and a nil result, without any provider request.        *)
(***************************************************************************)
C24_EmptyBatchRejected ==
    (IsOp("BatchGenerateEmbeddings") /\ Len(inv.args.texts) = 0) =>
        /\ inv.pc = "done"
        /\ inv.err.origin = "validation"
        /\ inv.out = NilVecs
        /\ inv.calls = <<>>

C24_Witness ==
    /\ Finished("BatchGenerateEmbeddings")
    /\ inv.args.texts = <<>>
    /\ inv.err = Errorf("validation", "no texts provided for batch embedding")
    /\ inv.out.isNil

(***************************************************************************)
(* C25: every vector an embedding operation returns with a nil error, and  *)
(* every element of a batch result, has exactly EmbeddingDimension values, *)
(* whatever the provider returned.                                         *)
(***************************************************************************)
C25_FixedDimension ==
    (inv.pc = "done" /\ inv.err = NoErr) =>
        /\ inv.op \in EmbeddingOps \ {"BatchGenerateEmbeddings"} =>
               Len(inv.out.Values) = EmbeddingDimension
        /\ IsOp("BatchGenerateEmbeddings") =>
               \A k \in 1..Len(inv.out.vecs) :
                   Len(inv.out.vecs[k].Values) = EmbeddingDimension

(***************************************************************************)
(* C26: no retries: an invocation of GenerateResponse, GenerateContent,    *)
(* StartChatSession, SendMessage or GenerateEmbedding issues at most one   *)
(* provider call, and BatchGenerateEmbeddings issues at most one per item, *)
(* in the order of the items, whether or not a provider call fails.        *)
(***************************************************************************)
SingleCallOps ==
    {"GenerateResponse", "GenerateContent", "StartChatSession", "SendMessage",
     "GenerateEmbedding"}

C26_NoRetries ==
    /\ inv.op \in SingleCallOps => Len(inv.calls) <= 1
    /\ IsOp("BatchGenerateEmbeddings") =>
           /\ Len(inv.calls) <= Len(inv.args.texts)
           /\ \A k \in 1..Len(inv.calls) : inv.calls[k].text = inv.args.texts[k]

C26_Witness ==
    /\ Finished("BatchGenerateEmbeddings")
    /\ Len(inv.args.texts) = 2
    /\ Len(inv.calls) = 2
    /\ inv.resp.err # NoErr
    /\ inv.err # NoErr

(***************************************************************************)
(* C28: the apiKey argument of GenerateContent is ignored: the request is  *)
(* made of the client, the prompt and the config alone, with the key fixed *)
(* at construction, and the result is made of the provider's response      *)
(* alone; so two calls that differ only in apiKey issue the same request   *)
(* and, given the same response, return the same result.                   *)
(***************************************************************************)
C28_ApiKeyIgnored ==
    IsOp("GenerateContent") =>
        /\ inv.calls = <<[api |-> "Models.GenerateContent", client |-> chat.client,
                          model |-> chat.model, text |-> inv.args.prompt,
                          config |-> inv.args.config]>>
        /\ inv.pc = "done" =>
               [text |-> inv.out, err |-> inv.err] = GenerateContentResult(inv.resp)

C28_Witness ==
    /\ Finished("GenerateContent")
    /\ inv.args.apiKey = "k2"
    /\ chat.client.apiKey = "k1"
    /\ inv.calls[1].client.apiKey = "k1"
    /\ inv.err = NoErr

(***************************************************************************)
(* C29: live-session operations never use a missing provider handle: on a  *)
(* nil LiveSession or one without a provider session, SendRealtimeInput,   *)
(* SendText and SendAudioPCM with a payload, and Receive, return the error *)
(* "session not initialized" without a provider call; StartLiveSession on  *)
(* a client without a provider handle returns an error and a nil session   *)
(* without connecting.                                                     *)
(***************************************************************************)
UsesProviderSession ==
    \/ inv.op \in {"SendRealtimeInput", "Receive"}
    \/ IsOp("SendText") /\ inv.args.text # ""
    \/ IsOp("SendAudioPCM") /\ Len(inv.args.data) > 0

C29_MissingHandleRejected ==
    /\ (UsesProviderSession /\ ~HasProviderSession(live)) =>
           /\ inv.pc = "done"
           /\ inv.err = Errorf("validation", "session not initialized")
           /\ inv.calls = <<>>
    /\ (IsOp("StartLiveSession") /\ chat.client.isNil) =>
           /\ inv.pc = "done"
           /\ inv.err.origin = "validation"
           /\ inv.out = Nil
           /\ inv.calls = <<>>

C29_Witness ==
    /\ Finished("SendText")
    /\ inv.args.text = "hello"
    /\ live = ZeroLiveSession
    /\ inv.err = Errorf("validation", "session not initialized")
    /\ inv.calls = <<>>

(***************************************************************************)
(* C27: the clients are immutable after construction: while several        *)
(* callers use one chat client and one embedding client, in any            *)
(* interleaving and with Close among the operations, the clients' provider *)
(* handles and model name never change, and the provider request of every  *)
(* call is made of that call's own arguments and the clients'              *)
(* construction-time fields alone.                                         *)
(***************************************************************************)
C27_OwnRequest(i) ==
    /\ i.op = "StartChatSession" =>
           i.calls = <<[api |-> "Chats.Create", client |-> chat.client,
                        model |-> chat.model, config |-> i.args.config]>>
    /\ i.op = "GenerateContentStream" =>
           i.calls = <<[api |-> "Models.GenerateContentStream", client |-> chat.client,
                        model |-> chat.model, text |-> i.args.prompt,
                        config |-> i.args.config]>>
    /\ (i.op = "GenerateQueryEmbedding" /\ i.args.query # "") =>
           i.calls = <<[api |-> "Models.EmbedContent", client |-> emb.client,
                        model |-> EmbeddingModel, text |-> i.args.query,
                        config |-> NilConfig]>>

C27_RequestsFromOwnArguments == \A c \in Callers : C27_OwnRequest(callers[c])

C27_ClientsUnchanged == chat' = chat /\ emb' = emb

C27_ClientsImmutable == []C27_RequestsFromOwnArguments /\ [][C27_ClientsUnchanged]_vars

C27_Witness ==
    /\ callers[1].pc = "await"
    /\ callers[1].op = "GenerateQueryEmbedding"
    /\ callers[2].pc = "await"
    /\ callers[2].op = "StartChatSession"

====
